---- MODULE Spec2Model ----
(***************************************************************************)
(* A model of fxload's firmware download engine (src/ezusb.c): the Intel   *)
(* HEX parser parse_ihex, the per-chip memory classifiers, the RAM loader  *)
(* ezusb_load_ram with its sink ram_poke, and the EEPROM writer            *)
(* ezusb_load_eeprom with its sink eeprom_poke.                            *)
(*                                                                         *)
(* The hex image is modelled as text: a sequence of one-character strings  *)
(* that fgets cuts into lines and strtoul converts, as the code does.  The *)
(* USB transport (ctrl_msg, an ioctl) is the environment: every request    *)
(* returns a status the model chooses, and every request is appended to    *)
(* the history variable log.                                               *)
(***************************************************************************)
EXTENDS Integers, Sequences, FiniteSets, TLC

(***************************************************************************)
(* Program constants.                                                      *)
(***************************************************************************)
RW_INTERNAL == 160
RW_EEPROM == 162
RW_EEPROM_LARGE == 169
RW_MEMORY == 163
GET_EEPROM_SIZE == 165
RETRY_LIMIT == 5
\* sizeof data in parse_ihex
DataSize == 1023
\* sizeof buf in parse_ihex
BufSize == 512
\* errno values the code names
ETIMEDOUT == 110
EINVAL == 22
EDOM == 33
\* an errno of a transport failure that is not a timeout
EPIPE == 32
\* unsigned short
U16 == 65536

(***************************************************************************)
(* Bounds of the exploration.                                              *)
(***************************************************************************)
\* transport requests of one call that may report a timeout
MaxTimeouts == 6
\* transport requests of one call that may transfer fewer bytes than asked
MaxShort == 1

(***************************************************************************)
(* Text: characters, hex digits, strtoul, fgets.                           *)
(***************************************************************************)
HexChars == <<"0", "1", "2", "3", "4", "5", "6", "7",
              "8", "9", "A", "B", "C", "D", "E", "F">>

IsHex(c) == \E d \in 1..16 : HexChars[d] = c

HexVal(c) == (CHOOSE d \in 1..16 : HexChars[d] = c) - 1

Min(a, b) == IF a < b THEN a ELSE b

RECURSIVE StrToULFrom(_, _, _)
StrToULFrom(s, i, acc) ==
    IF i > Len(s) \/ ~IsHex(s[i]) THEN acc
    ELSE StrToULFrom(s, i + 1, acc * 16 + HexVal(s[i]))

\* strtoul(s, 0, 16) of a NUL-terminated window of hex digits: the value of
\* the longest prefix of hex digits (no sign, blank or 0x prefix occurs in
\* the texts of this model)
StrToUL(s) == StrToULFrom(s, 1, 0)

\* the characters buf[a..b] (C indices, buf[0] first) of a line, cut at its
\* end: what strtoul(buf+a) sees after buf[b+1] was set to 0
Window(line, a, b) == SubSeq(line, a + 1, Min(b + 1, Len(line)))

\* fgets(buf, sizeof buf, image) at file offset pos (1-based): the characters
\* up to and including the next newline, at most sizeof buf - 1 of them;
\* the empty sequence is the NULL return at end of file
Fgets(text, pos) ==
    IF pos > Len(text) THEN <<>>
    ELSE LET hi == Min(pos + BufSize - 2, Len(text))
             nl == {i \in pos..hi : text[i] = "\n"}
             end == IF nl = {} THEN hi
                    ELSE CHOOSE i \in nl : \A j \in nl : i <= j
         IN  SubSeq(text, pos, end)

\* the line with its newline cut off (strchr (buf, '\n'); *cp = 0)
Chomp(buf) ==
    IF buf # <<>> /\ buf[Len(buf)] = "\n" THEN SubSeq(buf, 1, Len(buf) - 1)
    ELSE buf

(***************************************************************************)
(* The memory classifiers.                                                 *)
(***************************************************************************)
fx_is_external(addr, len) ==
    IF addr <= 6975 THEN (addr + len) > 6976 ELSE TRUE

\* an FX2 classifier whose high window ends one byte late
fx2_is_external_late(addr, len) ==
    IF addr <= 8191 THEN (addr + len) > 8192
    ELSE IF addr >= 57344 /\ addr <= 57855 THEN (addr + len) > 57857
    ELSE TRUE

fx2_is_external(addr, len) ==
    IF addr <= 8191 THEN (addr + len) > 8192
    ELSE IF addr >= 57344 /\ addr <= 57855 THEN (addr + len) > 57856
    ELSE TRUE

fx2lp_is_external(addr, len) ==
    IF addr <= 16383 THEN (addr + len) > 16384
    ELSE IF addr >= 57344 /\ addr <= 57855 THEN (addr + len) > 57856
    ELSE TRUE

\* the call through the is_external pointer; "NULL" leaves external as it was
IsExternal(fn, addr, len, old) ==
    CASE fn = "fx_is_external" -> fx_is_external(addr, len)
      [] fn = "fx2_is_external" -> fx2_is_external(addr, len)
      [] fn = "fx2lp_is_external" -> fx2lp_is_external(addr, len)
      [] OTHER -> old

(***************************************************************************)
(* The hex images of the exploration (the environment's inputs): record    *)
(* descriptors and their Intel HEX text.                                   *)
(***************************************************************************)
Hex2(n) == <<HexChars[((n \div 16) % 16) + 1], HexChars[(n % 16) + 1]>>

Hex4(n) == Hex2(n \div 256) \o Hex2(n % 256)

HexBytes(bs) ==
    [i \in 1..(2 * Len(bs)) |-> Hex2(bs[(i + 1) \div 2])[2 - (i % 2)]]

RECURSIVE SumRange(_, _, _)
SumRange(bs, lo, hi) ==
    IF lo > hi THEN 0
    ELSE IF lo = hi THEN bs[lo]
    ELSE SumRange(bs, lo, (lo + hi) \div 2) + SumRange(bs, ((lo + hi) \div 2) + 1, hi)

SumBytes(bs) == SumRange(bs, 1, Len(bs))

\* a record line ":LLAAAATTDD..CC": len is the LL field, bytes the DD.. field
Rec(len, off, type, bytes) ==
    [kind |-> "rec", len |-> len, off |-> off, type |-> type, bytes |-> bytes]

DataRec(off, bytes) == Rec(Len(bytes), off, 0, bytes)

EofRec == Rec(0, 0, 1, <<>>)

CommentLine == [kind |-> "comment", len |-> 0, off |-> 0, type |-> 0, bytes |-> <<>>]

JunkLine == [kind |-> "junk", len |-> 0, off |-> 0, type |-> 0, bytes |-> <<>>]

RecChecksum(d) ==
    (256 - ((d.len + (d.off \div 256) + (d.off % 256) + d.type
             + SumBytes(d.bytes)) % 256)) % 256

EncodeLine(d) ==
    CASE d.kind = "rec" ->
           <<":">> \o Hex2(d.len) \o Hex4(d.off) \o Hex2(d.type)
                   \o HexBytes(d.bytes) \o Hex2(RecChecksum(d)) \o <<"\n">>
      [] d.kind = "comment" -> <<"#", " ", "c", "\n">>
      [] OTHER -> <<"S", "0", "\n">>

RECURSIVE EncodeFile(_)
EncodeFile(ds) ==
    IF ds = <<>> THEN <<>> ELSE EncodeLine(Head(ds)) \o EncodeFile(Tail(ds))

\* the byte a logical image holds at its i-th position
ImageByte(i) == (37 * i + 11) % 256

ImageBytes(n) == [i \in 1..n |-> ImageByte(i)]

RECURSIVE SplitRecs(_, _, _)
SplitRecs(base, bytes, sizes) ==
    IF sizes = <<>> THEN <<>>
    ELSE <<DataRec(base, SubSeq(bytes, 1, Head(sizes)))>>
         \o SplitRecs(base + Head(sizes),
                      SubSeq(bytes, Head(sizes) + 1, Len(bytes)), Tail(sizes))

\* a contiguous image of n bytes at base, cut into records of the given
\* sizes and closed by an end record
Contig(base, n, sizes) ==
    [descs |-> SplitRecs(base, ImageBytes(n), sizes) \o <<EofRec>>,
     contiguous |-> TRUE, base |-> base, n |-> n]

Loose(ds) == [descs |-> ds, contiguous |-> FALSE, base |-> 0, n |-> 0]

\* the images given to the loaders
SmallFiles ==
    << Loose(<<DataRec(0, <<17>>), DataRec(16, <<51, 52>>), EofRec>>),
       Loose(<<DataRec(0, <<17>>), DataRec(16384, <<34, 35>>),
               DataRec(16, <<51>>), EofRec>>),
       Loose(<<DataRec(16384, <<34, 35>>), EofRec>>),
       Loose(<<DataRec(0, <<17, 18>>)>>),
       Loose(<<EofRec>>),
       Loose(<<DataRec(0, <<17>>), Rec(2, 0, 2, <<16, 0>>), EofRec>>) >>

\* the images given to parse_ihex alone
ParseFiles ==
    << Contig(256, 6, <<6>>),
       Contig(256, 6, <<2, 4>>),
       Contig(256, 6, <<1, 2, 3>>),
       Contig(256, 6, <<3, 0, 3>>),
       Contig(256, 6, <<0, 6>>),
       Contig(256, 1245, <<249, 249, 249, 249, 249>>),
       Contig(256, 1245, <<250, 249, 249, 249, 248>>),
       Contig(256, 1245, <<255, 255, 255, 255, 225>>),
       Loose(<<CommentLine, DataRec(0, <<17>>), CommentLine, EofRec>>),
       Loose(<<DataRec(0, <<17>>), JunkLine, EofRec>>),
       Loose(<<Rec(4, 0, 0, <<17, 18>>), EofRec>>),
       Loose(<<DataRec(0, <<17>>), DataRec(1, <<>>), DataRec(32, <<18>>)>>),
       Loose(<<DataRec(16, <<>>), DataRec(32, <<17>>), EofRec>>),
       Contig(256, 1245, <<249, 249, 249, 249, 27, 222>>) >>

Files == SmallFiles \o ParseFiles

FileTexts == [i \in 1..Len(Files) |-> EncodeFile(Files[i].descs)]

\* a path fopen cannot open
MissingPath == Len(Files) + 1

(***************************************************************************)
(* State.                                                                  *)
(***************************************************************************)
VARIABLES
    arg,            \* the arguments of the call under way
    verbose,        \* the global verbosity flag
    pc,             \* the position of the call
    ret,            \* the value the call returned (read at pc = "done")
    cpucs_addr, is_external, status,              \* locals of the loaders
    poke,           \* the sink parse_ihex was given
    mode, total, count,                           \* struct ram_poke_context
    retry,          \* ram_poke's retry counter
    pos,            \* the read offset of the image stream
    data_addr, data, first_line, external,        \* locals of parse_ihex
    pk,             \* the arguments of the sink call under way
    ee_addr, last, eeprom_request,                \* struct eeprom_poke_context
    first_byte, config, ww_vid, ww_pid,           \* locals of ezusb_load_eeprom
    log,            \* history: the transport requests issued, in order
    segs,           \* history: the segments handed to the sink, in order
    ee0             \* the device: the byte its EEPROM holds at offset 0
                    \* (at the start 0xC2: an older, bootable image)

vars == <<arg, verbose, pc, ret, cpucs_addr, is_external, status, poke,
          mode, total, count, retry, pos, data_addr, data, first_line,
          external, pk, ee_addr, last, eeprom_request, first_byte, config,
          ww_vid, ww_pid, log, segs, ee0>>

inputVars == <<arg, verbose>>
parseVars == <<pos, data_addr, data>>
ramVars == <<mode, total, count, retry>>
eeVars == <<ee_addr, last, eeprom_request, first_byte, config, ww_vid, ww_pid>>
loaderVars == <<cpucs_addr, is_external, poke>>

NoPoke == [ret |-> "none", addr |-> 0, external |-> FALSE, data |-> <<>>]

\* the text behind the image stream
Text == FileTexts[arg.path]

(***************************************************************************)
(* The transport: ctrl_msg and the device behind it.                       *)
(***************************************************************************)
TimeoutsSoFar ==
    Cardinality({i \in DOMAIN log : log[i].status < 0 /\ log[i].errno = ETIMEDOUT})

ShortSoFar ==
    Cardinality({i \in DOMAIN log : log[i].status >= 0 /\ log[i].status < log[i].len})

\* what ctrl_msg can return for a request of len bytes: the whole count, a
\* smaller count, or -1 with errno set to a timeout or to another error
Outcomes(len) ==
    IF len > U16 - 1 THEN {[status |-> -EINVAL, errno |-> 0]}
    ELSE {[status |-> len, errno |-> 0], [status |-> -1, errno |-> EPIPE]}
         \cup (IF TimeoutsSoFar < MaxTimeouts
               THEN {[status |-> -1, errno |-> ETIMEDOUT]} ELSE {})
         \cup (IF ShortSoFar < MaxShort /\ len > 0
               THEN {[status |-> len - 1, errno |-> 0]} ELSE {})

\* a request as the history keeps it; attempt is ram_poke's retry counter
\* when the request was issued (0 elsewhere)
Request(label, dir, opcode, addr, bytes, len, o) ==
    [label |-> label, dir |-> dir, opcode |-> opcode, addr |-> addr,
     data |-> bytes, len |-> len, status |-> o.status, errno |-> o.errno,
     attempt |-> 0]

\* the device's EEPROM byte at offset 0 after request r, which transferred
\* r.status bytes
DeviceEE0(r) ==
    IF r.opcode \in {RW_EEPROM, RW_EEPROM_LARGE} /\ r.addr = 0 /\ r.status >= 1
    THEN r.data[1] ELSE ee0

(***************************************************************************)
(* Returning.                                                              *)
(***************************************************************************)
Return(v) == pc' = "done" /\ ret' = v

\* where parse_ihex returns to
ParseReturnPc ==
    CASE arg.op = "load_ram" ->
           IF mode = "skip_external" THEN "ram_parsed2" ELSE "ram_parsed1"
      [] arg.op = "load_eeprom" -> "ee_parsed"
      [] OTHER -> "done"

\* return st from parse_ihex
ParseReturn(st) ==
    /\ status' = st
    /\ pc' = ParseReturnPc
    /\ ret' = IF ParseReturnPc = "done" THEN st ELSE ret

\* the entry of parse_ihex: its locals, and the stream at its start
ParseCall ==
    /\ pos' = 1
    /\ data_addr' = 0
    /\ data' = <<>>
    /\ first_line' = TRUE
    /\ external' = FALSE
    /\ pc' = "parse"

(***************************************************************************)
(* parse_ihex: the record under the read offset.                           *)
(***************************************************************************)
CurBuf == Fgets(Text, pos)
CurLine == Chomp(CurBuf)
CurLen == StrToUL(Window(CurLine, 1, 2))
CurOff == StrToUL(Window(CurLine, 3, 6))
\* char type = strtoul(...): two hex digits, so 1 and 0 only for 01 and 00
CurType == StrToUL(Window(CurLine, 7, 8))
CurBytes == [idx \in 1..CurLen |-> StrToUL(Window(CurLine, 7 + 2 * idx, 8 + 2 * idx)) % 256]

\* "record too short?"
TooShort(len, line) == (len * 2) + 11 > Len(line)

\* a flush test that looks at contiguity only
MustFlushNoCapacity(off, len, daddr, dlen) ==
    dlen # 0 /\ off # daddr + dlen

\* flush the saved data if it's not contiguous, or when the buffer is full
MustFlush(off, len, daddr, dlen) ==
    dlen # 0 /\ (off # daddr + dlen \/ (dlen + len) > DataSize)

(***************************************************************************)
(* ezusb_load_eeprom: the variant's profile and the order of its trailer.  *)
(***************************************************************************)
NULL == 0

RECURSIVE BitAnd(_, _)
BitAnd(a, b) ==
    IF a = 0 \/ b = 0 THEN 0
    ELSE (IF a % 2 = 1 /\ b % 2 = 1 THEN 1 ELSE 0) + 2 * BitAnd(a \div 2, b \div 2)

\* an AN21 test that lets a call without an image through
An21AnyPath(path) == TRUE

\* if (!path) return -1, of the AN21 branch
An21HasPath(path) == path # NULL

\* the if / else-if chain over the type name: what each variant sets, and
\* whether the call goes on (ok) or returns -1
EeProfile(type, path) ==
    CASE type = "fx2" ->
           [ok |-> TRUE, first_byte |-> IF path # NULL THEN 194 ELSE 192,
            cpucs_addr |-> 58880, is_external |-> "fx2_is_external",
            ee_addr |-> 8, mask |-> 79, vid |-> 1204, pid |-> 25715]
      [] type = "fx2lp" ->
           [ok |-> TRUE, first_byte |-> IF path # NULL THEN 194 ELSE 192,
            cpucs_addr |-> 58880, is_external |-> "fx2lp_is_external",
            ee_addr |-> 8, mask |-> 79, vid |-> 1204, pid |-> 34323]
      [] type = "fx" ->
           [ok |-> path # NULL, first_byte |-> 182,
            cpucs_addr |-> 32658, is_external |-> "fx_is_external",
            ee_addr |-> 9, mask |-> 7, vid |-> 0, pid |-> 0]
      [] type = "an21" ->
           [ok |-> An21HasPath(path), first_byte |-> 178,
            cpucs_addr |-> 32658, is_external |-> "fx_is_external",
            ee_addr |-> 7, mask |-> 0, vid |-> 0, pid |-> 0]
      [] OTHER ->
           [ok |-> FALSE, first_byte |-> 0, cpucs_addr |-> 0,
            is_external |-> "NULL", ee_addr |-> 0, mask |-> 0,
            vid |-> 0, pid |-> 0]

\* the step after the reserved-byte test
AfterReserved(type) == "ee_type"

\* a step after the config byte that writes the reserved byte for every variant
AfterConfigReserved(type) == "ee_reserved"

\* the step after the config byte: the reserved byte, for FX only
AfterConfig(type) == IF type = "fx" THEN "ee_reserved" ELSE AfterReserved(type)

\* a step after the frames that leaves out the config and reserved bytes
AfterFramesToTypeByte(type) == "ee_type"

\* the step after the frames: the config byte, but not for AN21
AfterFrames(type) == IF type # "an21" THEN "ee_config" ELSE AfterConfig(type)

\* the step after the identity record: the image's frames if there is a path
AfterIdent(type, path) == IF path # NULL THEN "parse" ELSE AfterFrames(type)

\* a header that never carries the last-segment flag
HeaderNoFlag(len, addr, lastflag) ==
    << (len \div 256) % 256, len % 256, (addr \div 256) % 256, addr % 256 >>

\* a header that always carries the last-segment flag
HeaderAlwaysFlag(len, addr, lastflag) ==
    << ((len \div 256) % 256) + 128, len % 256, (addr \div 256) % 256, addr % 256 >>

\* the 4 bytes eeprom_poke puts in front of a segment
Header(len, addr, lastflag) ==
    << ((len \div 256) % 256) + (IF lastflag # 0 THEN 128 ELSE 0),
       len % 256, (addr \div 256) % 256, addr % 256 >>

(***************************************************************************)
(* ezusb_load_ram and ezusb_cpucs: the variant's addresses.                *)
(***************************************************************************)
CpucsAddr(fx2) == IF fx2 = 2 THEN 58880 ELSE IF fx2 # 0 THEN 58880 ELSE 32658

Classifier(fx2) ==
    IF fx2 = 2 THEN "fx2lp_is_external"
    ELSE IF fx2 # 0 THEN "fx2_is_external" ELSE "fx_is_external"

\* an ezusb_cpucs that takes any non-negative status for success
CpucsOkNonNegative(st) == st >= 0

\* ezusb_cpucs succeeds when its one byte was transferred
CpucsOk(st) == st = 1

\* the byte ezusb_cpucs writes
CpucsData(doRun) == IF doRun # 0 THEN 0 ELSE 1


(***************************************************************************)
(* The sinks.                                                              *)
(***************************************************************************)
\* a ram_poke that writes every segment in every mode but the first
RamPokeNoSkip(m, ext) ==
    CASE m = "internal_only" -> IF ext THEN "error" ELSE "write"
      [] m \in {"skip_internal", "skip_external"} -> "write"
      [] OTHER -> "bug"

\* a ram_poke whose single-stage mode accepts external segments
RamPokeNoPolicy(m, ext) ==
    CASE m = "internal_only" -> "write"
      [] m = "skip_internal" -> IF ~ext THEN "skip" ELSE "write"
      [] m = "skip_external" -> IF ext THEN "skip" ELSE "write"
      [] OTHER -> "bug"

\* what ram_poke decides before it writes
RamPokeDecision(m, ext) ==
    CASE m = "internal_only" -> IF ext THEN "error" ELSE "write"
      [] m = "skip_internal" -> IF ~ext THEN "skip" ELSE "write"
      [] m = "skip_external" -> IF ext THEN "skip" ELSE "write"
      [] OTHER -> "bug"

\* an eeprom_poke that accepts every segment
EepromPokeAccept(ext, len) == 0

\* what eeprom_poke decides before it writes
EepromPokeDecision(ext, len) ==
    IF ext THEN -EINVAL ELSE IF len > 1023 THEN -EDOM ELSE 0

\* a ram_poke that writes every segment with the external-memory opcode
WriteOpcodeMemory(ext) == RW_MEMORY

\* the request ram_poke issues for a segment
WriteOpcode(ext) == IF ext THEN RW_MEMORY ELSE RW_INTERNAL

WriteLabel(ext) == IF ext THEN "write external" ELSE "write on-chip"

\* a retry loop that goes on after any error
RetryAnyError(rc, errno, n) == rc < 0 /\ n < RETRY_LIMIT

\* the loop condition and the break of ram_poke's retry loop
RetryAgain(rc, errno, n) == rc < 0 /\ n < RETRY_LIMIT /\ errno = ETIMEDOUT

\* a test of the sink's result that never sees a failure
SinkFailedNever(rc) == FALSE

\* if (rc < 0) return -1;
SinkFailed(rc) == rc < 0

\* the code after the sink call returned rc: kind names the call site
PokeReturn(kind, rc) ==
    CASE kind = "mid" ->
           IF SinkFailed(rc)
           THEN ParseReturn(-1) /\ UNCHANGED parseVars
           ELSE /\ data_addr' = CurOff % U16
                /\ data' = CurBytes
                /\ pos' = pos + Len(CurBuf)
                /\ pc' = "parse"
                /\ UNCHANGED <<ret, status>>
      [] kind = "end" ->
           /\ ParseReturn(IF SinkFailed(rc) THEN -1 ELSE 0)
           /\ UNCHANGED parseVars
      [] kind = "call" ->
           /\ status' = rc
           /\ Return(rc)
           /\ UNCHANGED parseVars
      [] OTHER ->
           /\ status' = rc
           /\ IF rc < 0 THEN Return(rc) ELSE pc' = AfterFrames(arg.type) /\ ret' = ret
           /\ UNCHANGED parseVars

\* the call poke (context, addr, ext, bytes, len) up to its first request
PokeCall(kind, addr, ext, bytes) ==
    \* the call as the history keeps it; rc is what the sink returns before
    \* it issues a request (0 when it goes on to its requests)
    LET seg == [addr |-> addr, external |-> ext, data |-> bytes,
                mode |-> mode, last |-> last', rc |-> 0]
    IN
       CASE poke = "ram_poke" ->
              LET d == RamPokeDecision(mode, ext) IN
              IF d = "write"
              THEN /\ total' = total + Len(bytes)
                   /\ count' = count + 1
                   /\ retry' = 0
                   /\ pk' = [ret |-> kind, addr |-> addr, external |-> ext,
                             data |-> bytes]
                   /\ pc' = "ram_write"
                   /\ segs' = Append(segs, seg)
                   /\ UNCHANGED <<ret, status, parseVars, mode>>
              ELSE LET rc == IF d = "skip" THEN 0
                             ELSE IF d = "error" THEN -EINVAL ELSE -EDOM
                   IN /\ segs' = Append(segs, [seg EXCEPT !.rc = rc])
                      /\ PokeReturn(kind, rc)
                      /\ UNCHANGED <<ramVars, pk>>
         [] poke = "eeprom_poke" ->
              LET d == EepromPokeDecision(ext, Len(bytes)) IN
              IF d = 0
              THEN /\ pk' = [ret |-> kind, addr |-> addr, external |-> ext,
                             data |-> bytes]
                   /\ pc' = "ee_header"
                   /\ segs' = Append(segs, seg)
                   /\ UNCHANGED <<ret, status, parseVars, ramVars>>
              ELSE /\ segs' = Append(segs, [seg EXCEPT !.rc = d])
                   /\ PokeReturn(kind, d)
                   /\ UNCHANGED <<ramVars, pk>>
         [] OTHER ->
              \* the caller's own sink: its result is kept with the segment
              /\ \E rc \in {0, -1} :
                     /\ segs' = Append(segs, [seg EXCEPT !.rc = rc])
                     /\ PokeReturn(kind, rc)
              /\ UNCHANGED <<ramVars, pk>>

(***************************************************************************)
(* parse_ihex.                                                             *)
(***************************************************************************)
\* one pass of the for (;;) loop: read a line, flush or append
ParseLine ==
    /\ pc = "parse"
    /\ UNCHANGED <<inputVars, loaderVars, eeVars, log, ee0>>
    /\ IF CurBuf = <<>>
       THEN \* "EOF without EOF record!": break
            /\ pc' = "flush"
            /\ UNCHANGED <<ret, status, parseVars, first_line, external,
                           ramVars, pk, segs>>
       ELSE IF CurBuf[1] = "#"
       THEN /\ pos' = pos + Len(CurBuf)
            /\ UNCHANGED <<pc, ret, status, data_addr, data, first_line,
                           external, ramVars, pk, segs>>
       ELSE IF CurBuf[1] # ":"
       THEN /\ ParseReturn(-2)
            /\ UNCHANGED <<parseVars, first_line, external, ramVars, pk, segs>>
       ELSE LET daddr == IF first_line THEN CurOff % U16 ELSE data_addr IN
            /\ first_line' = FALSE
            /\ IF CurType = 1
               THEN /\ pc' = "flush"
                    /\ data_addr' = daddr
                    /\ UNCHANGED <<ret, status, pos, data, external, ramVars,
                                   pk, segs>>
               ELSE IF CurType # 0
               THEN /\ ParseReturn(-3)
                    /\ data_addr' = daddr
                    /\ UNCHANGED <<pos, data, external, ramVars, pk, segs>>
               ELSE IF TooShort(CurLen, CurLine)
               THEN /\ ParseReturn(-4)
                    /\ data_addr' = daddr
                    /\ UNCHANGED <<pos, data, external, ramVars, pk, segs>>
               ELSE IF MustFlush(CurOff, CurLen, daddr, Len(data))
               THEN /\ external' = IsExternal(is_external, daddr, Len(data), external)
                    /\ PokeCall("mid", daddr, external', data)
               ELSE /\ data_addr' = daddr
                    /\ data' = data \o CurBytes
                    /\ pos' = pos + Len(CurBuf)
                    /\ UNCHANGED <<pc, ret, status, external, ramVars, pk, segs>>

\* after the loop: flush any data remaining, return 0
FlushRemaining ==
    /\ pc = "flush"
    /\ UNCHANGED <<inputVars, loaderVars, eeVars, log, ee0, first_line>>
    /\ IF Len(data) # 0
       THEN /\ external' = IsExternal(is_external, data_addr, Len(data), external)
            /\ PokeCall("end", data_addr, external', data)
       ELSE /\ ParseReturn(0)
            /\ UNCHANGED <<parseVars, external, ramVars, pk, segs>>

\* a call of one of the classifiers, as parse_ihex makes it:
\* external = is_external (addr, len)
Classify ==
    /\ pc = "classify"
    /\ external' = IsExternal(arg.is_external, arg.addr, arg.len, external)
    /\ Return(IF external' THEN 1 ELSE 0)
    /\ UNCHANGED <<inputVars, loaderVars, status, ramVars, parseVars,
                   first_line, pk, eeVars, log, segs, ee0>>

\* a caller that hands parse_ihex an image and a sink of its own
ParseStart ==
    /\ pc = "parse_call"
    /\ ParseCall
    /\ UNCHANGED <<inputVars, ret, status, loaderVars, ramVars, pk, eeVars,
                   log, segs, ee0>>

(***************************************************************************)
(* ram_poke: the retry loop, one ezusb_write a step.                       *)
(***************************************************************************)
RamPokeWrite ==
    /\ pc = "ram_write"
    /\ \E o \in Outcomes(Len(pk.data)) :
         /\ log' = Append(log, [Request(WriteLabel(pk.external), "out",
                                        WriteOpcode(pk.external),
                                        pk.addr, pk.data, Len(pk.data), o)
                                    EXCEPT !.attempt = retry])
         /\ IF RetryAgain(o.status, o.errno, retry)
            THEN /\ retry' = retry + 1
                 /\ UNCHANGED <<pc, ret, status, parseVars, pk>>
            ELSE /\ PokeReturn(pk.ret, IF o.status < 0 THEN -o.errno ELSE 0)
                 /\ pk' = NoPoke
                 /\ retry' = retry
    /\ UNCHANGED <<inputVars, loaderVars, mode, total, count, first_line,
                   external, eeVars, segs, ee0>>

(***************************************************************************)
(* eeprom_poke: the header write, then the payload write.                  *)
(***************************************************************************)
\* a test of ezusb_write's result that takes a short count for a failure
EeWriteFailedShort(rc, len) == rc # len

\* if ((rc = ezusb_write (...)) < 0) return rc;
EeWriteFailed(rc, len) == rc < 0

EepromPokeHeader ==
    /\ pc = "ee_header"
    /\ \E o \in Outcomes(4) :
         LET h == Header(Len(pk.data), pk.addr, last) IN
         /\ log' = Append(log, Request("write EEPROM segment header", "out",
                                       eeprom_request, ee_addr, h, 4, o))
         /\ ee0' = DeviceEE0(log'[Len(log')])
         /\ IF EeWriteFailed(o.status, 4)
            THEN PokeReturn(pk.ret, o.status) /\ pk' = NoPoke
            ELSE pc' = "ee_data" /\ UNCHANGED <<ret, status, parseVars, pk>>
    /\ UNCHANGED <<inputVars, loaderVars, ramVars, first_line, external,
                   eeVars, segs>>

\* a cursor that moves by the payload only
NextFreeNoHeader(cursor, len) == (cursor + len) % U16

\* next shouldn't overwrite it: ctx->ee_addr += 4 + len
NextFree(cursor, len) == (cursor + 4 + len) % U16

EepromPokeData ==
    /\ pc = "ee_data"
    /\ \E o \in Outcomes(Len(pk.data)) :
         /\ log' = Append(log, Request("write EEPROM segment", "out",
                                       eeprom_request, (ee_addr + 4) % U16,
                                       pk.data, Len(pk.data), o))
         /\ ee0' = DeviceEE0(log'[Len(log')])
         /\ IF EeWriteFailed(o.status, Len(pk.data))
            THEN PokeReturn(pk.ret, o.status) /\ ee_addr' = ee_addr
            ELSE /\ ee_addr' = NextFree(ee_addr, Len(pk.data))
                 /\ PokeReturn(pk.ret, 0)
    /\ pk' = NoPoke
    /\ UNCHANGED <<inputVars, loaderVars, ramVars, first_line, external,
                   last, eeprom_request, first_byte, config, ww_vid, ww_pid,
                   segs>>

(***************************************************************************)
(* ezusb_load_ram.                                                         *)
(***************************************************************************)
\* open the image, pick the variant's CPUCS address and classifier, pick the
\* mode of the first scan
RamOpen ==
    /\ pc = "ram_open"
    /\ IF arg.path = MissingPath
       THEN Return(-2) /\ UNCHANGED <<cpucs_addr, is_external, poke, mode>>
       ELSE /\ cpucs_addr' = CpucsAddr(arg.fx2)
            /\ is_external' = Classifier(arg.fx2)
            /\ poke' = "ram_poke"
            /\ mode' = IF arg.stage = 0 THEN "internal_only" ELSE "skip_internal"
            /\ pc' = IF arg.stage = 0 THEN "ram_halt" ELSE "ram_scan"
            /\ ret' = ret
    /\ UNCHANGED <<inputVars, status, total, count, retry, parseVars,
                   first_line, external, pk, eeVars, log, segs, ee0>>

\* single stage: don't let CPU run while we overwrite its code/data
RamHaltFirst ==
    /\ pc = "ram_halt"
    /\ \E o \in Outcomes(1) :
         /\ log' = Append(log, Request("stop CPU", "out", RW_INTERNAL, cpucs_addr,
                                       <<CpucsData(0)>>, 1, o))
         /\ IF CpucsOk(o.status) THEN pc' = "ram_scan" /\ ret' = ret
            ELSE Return(-1)
    /\ UNCHANGED <<inputVars, loaderVars, status, ramVars, parseVars,
                   first_line, external, pk, eeVars, segs, ee0>>

\* scan the image, first (maybe only) time
RamScan ==
    /\ pc = "ram_scan"
    /\ total' = 0
    /\ count' = 0
    /\ ParseCall
    /\ UNCHANGED <<inputVars, loaderVars, ret, status, mode, retry, pk,
                   eeVars, log, segs, ee0>>

\* a test that lets the sink's failure (-1) through
ParseFailedFormatOnly(st) == st < -1

\* if (status < 0) return status;
ParseFailed(st) == st < 0

\* the first scan returned
RamParsed1 ==
    /\ pc = "ram_parsed1"
    /\ IF ParseFailed(status)
       THEN Return(status) /\ mode' = mode
       ELSE IF arg.stage # 0
       THEN mode' = "skip_external" /\ pc' = "ram_halt2" /\ ret' = ret
       ELSE mode' = mode /\ pc' = "ram_summary" /\ ret' = ret
    /\ UNCHANGED <<inputVars, loaderVars, status, total, count, retry,
                   parseVars, first_line, external, pk, eeVars, log, segs, ee0>>

\* second part of 2nd stage: halt the CPU, rewind, rescan
RamHaltSecond ==
    /\ pc = "ram_halt2"
    /\ \E o \in Outcomes(1) :
         /\ log' = Append(log, Request("stop CPU", "out", RW_INTERNAL, cpucs_addr,
                                       <<CpucsData(0)>>, 1, o))
         /\ IF CpucsOk(o.status)
            THEN ParseCall /\ ret' = ret
            ELSE Return(-1) /\ UNCHANGED <<parseVars, first_line, external>>
    /\ UNCHANGED <<inputVars, loaderVars, status, ramVars, pk, eeVars, segs, ee0>>

\* the second scan returned
RamParsed2 ==
    /\ pc = "ram_parsed2"
    /\ IF ParseFailed(status) THEN Return(status)
       ELSE pc' = "ram_summary" /\ ret' = ret
    /\ UNCHANGED <<inputVars, loaderVars, status, ramVars, parseVars,
                   first_line, external, pk, eeVars, log, segs, ee0>>

\* a summary whose division is undefined whenever it is computed
SummaryUndefinedAlways(v, c) == v # 0

\* if (verbose) ... ctx.total / ctx.count: computed when verbose is set,
\* undefined when the divisor ctx.count is 0
SummaryUndefined(v, c) == v # 0 /\ c = 0

\* the verbose summary divides ctx.total by ctx.count: with count = 0 the
\* division is undefined, it traps or yields some number
RamSummary ==
    /\ pc = "ram_summary"
    /\ IF SummaryUndefined(verbose, count)
       THEN pc' = "crashed" \/ pc' = "ram_resume"
       ELSE pc' = "ram_resume"
    /\ UNCHANGED <<inputVars, loaderVars, ret, status, ramVars, parseVars,
                   first_line, external, pk, eeVars, log, segs, ee0>>

\* now reset the CPU so it runs what we just downloaded
RamResume ==
    /\ pc = "ram_resume"
    /\ \E o \in Outcomes(1) :
         /\ log' = Append(log, Request("reset CPU", "out", RW_INTERNAL, cpucs_addr,
                                       <<CpucsData(1)>>, 1, o))
         /\ Return(IF CpucsOk(o.status) THEN 0 ELSE -1)
    /\ UNCHANGED <<inputVars, loaderVars, status, ramVars, parseVars,
                   first_line, external, pk, eeVars, segs, ee0>>

\* a caller that hands eeprom_poke one segment
EepromPokeEnter ==
    /\ pc = "poke_call"
    /\ UNCHANGED <<inputVars, loaderVars, first_line, external, eeVars, log, ee0>>
    /\ PokeCall("call", arg.addr, arg.external, ImageBytes(arg.len))

(***************************************************************************)
(* ezusb_load_eeprom.                                                      *)
(***************************************************************************)
\* with a path: ask the device for its EEPROM type, then open the image.
\* When the read transfers nothing, value is read uninitialised: any byte.
EeOpen ==
    /\ pc = "ee_open"
    /\ IF arg.path # NULL
       THEN \E o \in Outcomes(1), value \in {0, 1, 2} :
              /\ log' = Append(log, Request("get EEPROM size", "in",
                                            GET_EEPROM_SIZE, 0, <<value>>, 1, o))
              /\ status' = o.status
              /\ IF (o.status # 1 \/ value # 1) /\ value # 0
                 THEN Return(-1)
                 ELSE IF arg.path = MissingPath
                 THEN Return(-2)
                 ELSE pc' = "ee_select" /\ ret' = ret
       ELSE pc' = "ee_select" /\ UNCHANGED <<ret, status, log>>
    /\ UNCHANGED <<inputVars, loaderVars, ramVars, parseVars, first_line,
                   external, pk, eeVars, segs, ee0>>

\* EZ-USB family devices differ, apart from the 8051 core
EeSelect ==
    /\ pc = "ee_select"
    /\ LET p == EeProfile(arg.type, arg.path) IN
       IF p.ok
       THEN /\ first_byte' = p.first_byte
            /\ cpucs_addr' = p.cpucs_addr
            /\ is_external' = p.is_external
            /\ ee_addr' = p.ee_addr
            /\ eeprom_request' = IF arg.large_eeprom # 0 THEN RW_EEPROM_LARGE
                                 ELSE RW_EEPROM
            /\ config' = BitAnd(config, p.mask)
            /\ ww_vid' = p.vid
            /\ ww_pid' = p.pid
            /\ pc' = "ee_mark"
            /\ ret' = ret
       ELSE /\ Return(-1)
            /\ UNCHANGED <<first_byte, cpucs_addr, is_external, ee_addr,
                           eeprom_request, config, ww_vid, ww_pid>>
    /\ UNCHANGED <<inputVars, status, poke, ramVars, parseVars, first_line,
                   external, pk, last, log, segs, ee0>>

\* a marker write that leaves the type byte alone: value 0x00 at offset 1
MarkRequestOffByOne(req, o) ==
    Request("mark EEPROM as unbootable", "out", req, 1, <<0>>, 1, o)

\* the write that marks the EEPROM as unbootable: value 0x00 at offset 0
MarkRequest(req, o) ==
    Request("mark EEPROM as unbootable", "out", req, 0, <<0>>, 1, o)

\* make sure the EEPROM won't be used for booting
EeMark ==
    /\ pc = "ee_mark"
    /\ \E o \in Outcomes(1) :
         /\ log' = Append(log, MarkRequest(eeprom_request, o))
         /\ ee0' = DeviceEE0(log'[Len(log')])
         /\ status' = o.status
         /\ IF o.status < 0 THEN Return(o.status) ELSE pc' = "ee_ident" /\ ret' = ret
    /\ UNCHANGED <<inputVars, loaderVars, ramVars, parseVars, first_line,
                   external, pk, eeVars, segs>>

\* the identity record
IdentBytes(vid, pid) ==
    << vid % 256, (vid \div 256) % 256, pid % 256, (pid \div 256) % 256, 5, 160 >>

\* the ids after the overrides are applied (unsigned short)
WwId(override, default) == IF override >= 0 THEN override % U16 ELSE default

\* the identity record is written when both ids are non-zero
HasIdent(vid, pid) == vid # 0 /\ pid # 0

\* after the identity step: scan the image, or go on to the trailer
EeGoOn ==
    IF AfterIdent(arg.type, arg.path) = "parse"
    THEN last' = 0 /\ poke' = "eeprom_poke" /\ ParseCall
    ELSE /\ pc' = AfterIdent(arg.type, arg.path)
         /\ UNCHANGED <<last, poke, parseVars, first_line, external>>

EeIdent ==
    /\ pc = "ee_ident"
    /\ ww_vid' = WwId(arg.ww_config_vid, ww_vid)
    /\ ww_pid' = WwId(arg.ww_config_pid, ww_pid)
    /\ IF HasIdent(ww_vid', ww_pid')
       THEN \E o \in Outcomes(6) :
              /\ log' = Append(log, Request("load VID, PID", "out", eeprom_request,
                                            1, IdentBytes(ww_vid', ww_pid'), 6, o))
              /\ ee0' = DeviceEE0(log'[Len(log')])
              /\ status' = o.status
              /\ IF o.status < 0
                 THEN /\ Return(o.status)
                      /\ UNCHANGED <<last, poke, parseVars, first_line, external>>
                 ELSE EeGoOn /\ ret' = ret
       ELSE EeGoOn /\ UNCHANGED <<ret, status, log, ee0>>
    /\ UNCHANGED <<inputVars, cpucs_addr, is_external, ramVars, pk, ee_addr,
                   eeprom_request, first_byte, config, segs>>

\* the scan returned: append a reset command
EeParsed ==
    /\ pc = "ee_parsed"
    /\ UNCHANGED <<inputVars, loaderVars, first_line, external, ee_addr,
                   eeprom_request, first_byte, config, ww_vid, ww_pid, log, ee0>>
    /\ IF status < 0
       THEN /\ Return(status)
            /\ UNCHANGED <<status, last, parseVars, ramVars, pk, segs>>
       ELSE /\ last' = 1
            /\ PokeCall("reset", cpucs_addr, FALSE, <<0>>)

\* write the config byte for FX, FX2
EeConfig ==
    /\ pc = "ee_config"
    /\ \E o \in Outcomes(1) :
         /\ log' = Append(log, Request("write config byte", "out",
                                       eeprom_request, 7, <<config % 256>>, 1, o))
         /\ ee0' = DeviceEE0(log'[Len(log')])
         /\ status' = o.status
         /\ IF o.status < 0 THEN Return(o.status)
            ELSE pc' = AfterConfig(arg.type) /\ ret' = ret
    /\ UNCHANGED <<inputVars, loaderVars, ramVars, parseVars, first_line,
                   external, pk, eeVars, segs>>

\* EZ-USB FX has a reserved byte
EeReserved ==
    /\ pc = "ee_reserved"
    /\ \E o \in Outcomes(1) :
         /\ log' = Append(log, Request("write reserved byte", "out",
                                       eeprom_request, 8, <<0>>, 1, o))
         /\ ee0' = DeviceEE0(log'[Len(log')])
         /\ status' = o.status
         /\ IF o.status < 0 THEN Return(o.status)
            ELSE pc' = AfterReserved(arg.type) /\ ret' = ret
    /\ UNCHANGED <<inputVars, loaderVars, ramVars, parseVars, first_line,
                   external, pk, eeVars, segs>>

\* make the EEPROM say to boot from this EEPROM
EeTypeByte ==
    /\ pc = "ee_type"
    /\ \E o \in Outcomes(1) :
         /\ log' = Append(log, Request("write EEPROM type byte", "out",
                                       eeprom_request, 0, <<first_byte>>, 1, o))
         /\ ee0' = DeviceEE0(log'[Len(log')])
         /\ status' = o.status
         /\ Return(IF o.status < 0 THEN o.status ELSE 0)
    /\ UNCHANGED <<inputVars, loaderVars, ramVars, parseVars, first_line,
                   external, pk, eeVars, segs>>

(***************************************************************************)
(* The calls explored, and the specification.                              *)
(***************************************************************************)
\* the classifiers are called on addresses within EdgeMargin of the first
\* and last address of a window, of the address space, and of the lowest
\* start of a longest segment that ends there; with lengths within
\* EdgeMargin of the shortest and of the longest segment, and in between
EdgeMargin == 3

WindowEdges == {0, 6975, 6976, 8191, 8192, 16383, 16384, 57344, 57855, 57856, U16 - 1}

ClassifyAddrs ==
    {a \in 0..(U16 - 1) :
        \E e \in WindowEdges :
            \/ a \in (e - EdgeMargin)..(e + EdgeMargin)
            \/ a \in (e - DataSize - EdgeMargin)..(e - DataSize + EdgeMargin)
            \/ a \in (e - DataSize \div 2 - EdgeMargin)..(e - DataSize \div 2 + EdgeMargin)}

ClassifyLens ==
    (1..(1 + EdgeMargin)) \cup ((DataSize - EdgeMargin)..DataSize)
        \cup ((DataSize \div 2 - EdgeMargin)..(DataSize \div 2 + EdgeMargin))

\* the cursor ezusb_load_eeprom hands to the first eeprom_poke call (FX2),
\* and the one it hands on after as many frames of the longest segment
\* parse_ihex builds as fit below the end of the cursor's 16 bits
FirstCursor == EeProfile("fx2", NULL).ee_addr

LateFrames == (U16 - 1 - FirstCursor) \div (4 + DataSize)

LateCursor == FirstCursor + LateFrames * (4 + DataSize)

\* eeprom_poke is handed segments of the shortest and longest lengths it
\* accepts and of the first length it refuses, internal and external, with
\* the cursor of its context at the first frame and at a late one
PokeArgs ==
    {[op |-> "eeprom_poke", path |-> NULL, fx2 |-> 0, stage |-> 0, type |-> "",
      config |-> 0, large_eeprom |-> l, ww_config_vid |-> -1,
      ww_config_pid |-> -1, is_external |-> "NULL", addr |-> a, len |-> n,
      external |-> e, last |-> f, cursor |-> c] :
        l \in {0, 1}, a \in {0, 4660}, n \in {0, 1, DataSize, DataSize + 1},
        e \in BOOLEAN, f \in {0, 1}, c \in {FirstCursor, LateCursor}}

ClassifyArgs ==
    {[op |-> "classify", path |-> NULL, fx2 |-> 0, stage |-> 0, type |-> "",
      config |-> 0, large_eeprom |-> 0, ww_config_vid |-> -1,
      ww_config_pid |-> -1, is_external |-> e, addr |-> a, len |-> l] :
        e \in {"fx_is_external", "fx2_is_external", "fx2lp_is_external"},
        a \in ClassifyAddrs, l \in ClassifyLens}

LoaderPaths == (1..Len(SmallFiles)) \cup {MissingPath}

RamArgs ==
    {[op |-> "load_ram", path |-> p, fx2 |-> f, stage |-> s, type |-> "",
      config |-> 0, large_eeprom |-> 0, ww_config_vid |-> -1,
      ww_config_pid |-> -1, is_external |-> "NULL"] :
        p \in LoaderPaths, f \in 0..2, s \in 0..1}

EepromArgs ==
    {[op |-> "load_eeprom", path |-> p, fx2 |-> 0, stage |-> 0, type |-> t,
      config |-> c, large_eeprom |-> l, ww_config_vid |-> id[1],
      ww_config_pid |-> id[2], is_external |-> "NULL"] :
        p \in LoaderPaths \cup {NULL}, t \in {"fx2", "fx2lp", "fx", "an21", "fx3"},
        c \in {90, 255}, l \in {0, 1},
        id \in {<<-1, -1>>, <<4660, -1>>, <<0, 22136>>, <<4660, 22136>>}}

ParseArgs ==
    {[op |-> "parse_ihex", path |-> p, fx2 |-> 0, stage |-> 0, type |-> "",
      config |-> 0, large_eeprom |-> 0, ww_config_vid |-> -1,
      ww_config_pid |-> -1, is_external |-> e] :
        p \in 1..Len(Files), e \in {"NULL", "fx2_is_external"}}

\* the state a call starts in
Start(args) ==
    /\ arg \in args
    /\ verbose \in (IF arg.op = "load_ram" THEN {0, 1} ELSE {0})
    /\ ee0 = 194
    /\ pc = CASE arg.op = "load_ram" -> "ram_open"
              [] arg.op = "load_eeprom" -> "ee_open"
              [] arg.op = "classify" -> "classify"
              [] arg.op = "eeprom_poke" -> "poke_call"
              [] OTHER -> "parse_call"
    /\ ret = 0
    /\ cpucs_addr = 0
    /\ is_external = arg.is_external
    /\ status = 0
    /\ poke = (IF arg.op = "eeprom_poke" THEN "eeprom_poke" ELSE "sink")
    /\ mode = "_undef"
    /\ total = 0
    /\ count = 0
    /\ retry = 0
    /\ pos = 1
    /\ data_addr = 0
    /\ data = <<>>
    /\ first_line = TRUE
    /\ external = FALSE
    /\ pk = NoPoke
    /\ ee_addr = (IF arg.op = "eeprom_poke" THEN arg.cursor ELSE 0)
    /\ last = (IF arg.op = "eeprom_poke" THEN arg.last ELSE 0)
    /\ eeprom_request = (IF arg.op # "eeprom_poke" THEN 0
                         ELSE IF arg.large_eeprom # 0 THEN RW_EEPROM_LARGE
                         ELSE RW_EEPROM)
    /\ first_byte = 0
    /\ config = arg.config
    /\ ww_vid = 0
    /\ ww_pid = 0
    /\ log = <<>>
    /\ segs = <<>>

\* parse_ihex, whoever called it
ParseNext ==
    \/ ParseLine
    \/ FlushRemaining

\* a call of ezusb_load_ram
RamNext ==
    \/ RamOpen
    \/ RamHaltFirst
    \/ RamScan
    \/ RamPokeWrite
    \/ RamParsed1
    \/ RamHaltSecond
    \/ RamParsed2
    \/ RamSummary
    \/ RamResume

\* a call of ezusb_load_eeprom
EepromNext ==
    \/ EeOpen
    \/ EeSelect
    \/ EeMark
    \/ EeIdent
    \/ EepromPokeHeader
    \/ EepromPokeData
    \/ EeParsed
    \/ EeConfig
    \/ EeReserved
    \/ EeTypeByte

Init == Start(RamArgs \cup EepromArgs \cup ParseArgs \cup ClassifyArgs \cup PokeArgs)

Next == Classify \/ ParseStart \/ ParseNext \/ RamNext \/ EepromNext \/ EepromPokeEnter

\* any of the calls
Spec == Init /\ [][Next]_vars

\* one of the classifiers
SpecClassify == Start(ClassifyArgs) /\ [][Classify]_vars

\* parse_ihex called with a sink of the caller's own
SpecParse == Start(ParseArgs) /\ [][ParseStart \/ ParseNext]_vars

\* ezusb_load_ram
SpecRam == Start(RamArgs) /\ [][ParseNext \/ RamNext]_vars

\* ezusb_load_eeprom
SpecEeprom == Start(EepromArgs) /\ [][ParseNext \/ EepromNext]_vars

\* either loader
SpecLoad == Start(RamArgs \cup EepromArgs) /\ [][ParseNext \/ RamNext \/ EepromNext]_vars

\* ezusb_load_eeprom, or eeprom_poke called on a segment of the caller's
SpecEepromPoke ==
    Start(EepromArgs \cup PokeArgs)
        /\ [][ParseNext \/ EepromNext \/ EepromPokeEnter]_vars

(***************************************************************************)
(* Properties.  Helpers over the history first.                            *)
(***************************************************************************)
Returned == pc = "done"

LastReq == log[Len(log)]

IsMarker(r) == r.label = "mark EEPROM as unbootable"
IsIdentWrite(r) == r.label = "load VID, PID"
IsFrameHeader(r) == r.label = "write EEPROM segment header"
IsFramePayload(r) == r.label = "write EEPROM segment"
IsConfigWrite(r) == r.label = "write config byte"
IsReservedWrite(r) == r.label = "write reserved byte"
IsTypeWrite(r) == r.label = "write EEPROM type byte"
IsHalt(r) == r.label = "stop CPU"
IsResume(r) == r.label = "reset CPU"
IsSegmentWrite(r) == r.label \in {"write external", "write on-chip"}

\* the requests that are writes, in order
Writes == SelectSeq(log, LAMBDA r : r.dir = "out")

\* every frame written so far lies below the end of the 16-bit EEPROM
\* address space and above the variant's header bytes: the cursor has not
\* wrapped around
FramesFit ==
    \A i \in DOMAIN log :
        (IsFrameHeader(log[i]) \/ IsFramePayload(log[i]))
            => log[i].addr >= 7 /\ log[i].addr + log[i].len <= U16

----------------------------------------------------------------------------
\* C1 as stated: when ezusb_load_eeprom returns because one of its writes
\* before the final type-byte write met a transport fault (every other
\* request having transferred all its bytes), the EEPROM byte at offset 0
\* is 0.
C1_AnyAbortLeavesZero ==
    ( /\ arg.op = "load_eeprom"
      /\ Returned
      /\ log # <<>>
      /\ LastReq.dir = "out" /\ LastReq.status < 0 /\ ~IsTypeWrite(LastReq)
      /\ \A i \in 1..(Len(log) - 1) : log[i].status = log[i].len )
    => ee0 = 0

\* C1 as amended: when ezusb_load_eeprom returns because a write issued
\* after the marker write and before the final type-byte write met a
\* transport fault, the marker write having transferred its byte and the
\* frames written lying inside the 16-bit EEPROM address space, the EEPROM
\* byte at offset 0 is 0.
C1_AbortAfterMarkerLeavesZero ==
    ( /\ arg.op = "load_eeprom"
      /\ Returned
      /\ log # <<>>
      /\ LastReq.dir = "out" /\ LastReq.status < 0
      /\ ~IsTypeWrite(LastReq) /\ ~IsMarker(LastReq)
      /\ \E i \in DOMAIN log : IsMarker(log[i]) /\ log[i].status = 1
      /\ FramesFit )
    => ee0 = 0

\* C1 witness: a call that wrote the marker over a bootable type byte and
\* was then aborted by a fault on a frame's payload write.
C1_Witness ==
    /\ arg.op = "load_eeprom"
    /\ Returned
    /\ ret < 0
    /\ log # <<>>
    /\ IsFramePayload(LastReq) /\ LastReq.status < 0
    /\ \E i \in DOMAIN log : IsMarker(log[i]) /\ log[i].status = 1
    /\ ee0 = 0

----------------------------------------------------------------------------
\* the position of a write in the order of ezusb_load_eeprom's steps; a
\* frame's payload takes the position of the header in front of it, and the
\* reset frame is the frame whose header carries the last-segment flag
HeaderRank(r) == IF r.data[1] >= 128 THEN 4 ELSE 3

Rank(W, i) ==
    CASE IsMarker(W[i]) -> 1
      [] IsIdentWrite(W[i]) -> 2
      [] IsFrameHeader(W[i]) -> HeaderRank(W[i])
      [] IsFramePayload(W[i]) ->
           IF i > 1 /\ IsFrameHeader(W[i - 1]) THEN HeaderRank(W[i - 1]) ELSE 0
      [] IsConfigWrite(W[i]) -> 5
      [] IsReservedWrite(W[i]) -> 6
      [] IsTypeWrite(W[i]) -> 7
      [] OTHER -> 0

RECURSIVE Flatten(_)
Flatten(ss) == IF ss = <<>> THEN <<>> ELSE Head(ss) \o Flatten(Tail(ss))

IsPrefix(a, b) == Len(a) <= Len(b) /\ a = SubSeq(b, 1, Len(a))

\* the bytes of the image's data records, in the order of the file
SourceBytes(f) ==
    Flatten([i \in DOMAIN f.descs |->
                IF f.descs[i].kind = "rec" /\ f.descs[i].type = 0
                THEN f.descs[i].bytes ELSE <<>>])

\* the payloads of the firmware frames written so far, in request order
FirmwarePayloads(W) ==
    Flatten([i \in DOMAIN W |->
                IF IsFramePayload(W[i]) /\ Rank(W, i) = 3 THEN W[i].data ELSE <<>>])

CountOf(W, Is(_)) == Cardinality({i \in DOMAIN W : Is(W[i])})

\* C2: in every run of ezusb_load_eeprom the writes are ordered: the marker
\* (byte 0 at offset 0) is the first write; then the identity record, the
\* firmware frames in source order (header then payload, as the parser
\* handed them over), the reset frame, the config byte, the FX reserved
\* byte; the type byte at offset 0 is non-zero and is the last write; no
\* write follows a write that returned a negative status; and a call that
\* returns 0 has made every step its variant and arguments call for.
C2_EepromWriteOrder ==
    arg.op = "load_eeprom" =>
    LET W == Writes
        H == SelectSeq(W, IsFrameHeader)
    IN
    /\ W # <<>> => IsMarker(W[1]) /\ W[1].addr = 0 /\ W[1].data = <<0>>
    /\ \A i \in DOMAIN W : Rank(W, i) > 0
    /\ \A i, j \in DOMAIN W : i < j => Rank(W, i) <= Rank(W, j)
    /\ \A i \in DOMAIN W : i < Len(W) => W[i].status >= 0
    /\ CountOf(W, IsMarker) <= 1 /\ CountOf(W, IsIdentWrite) <= 1
    /\ CountOf(W, IsConfigWrite) <= 1 /\ CountOf(W, IsReservedWrite) <= 1
    /\ Cardinality({i \in DOMAIN W : Rank(W, i) = 4 /\ IsFrameHeader(W[i])}) <= 1
    /\ \A i \in DOMAIN W :
           IsTypeWrite(W[i]) =>
               /\ i = Len(W)
               /\ W[i].addr = 0
               /\ W[i].data = <<first_byte>>
               /\ first_byte # 0
    \* frame k is the k-th segment handed to eeprom_poke
    /\ Len(H) <= Len(segs)
    /\ \A k \in DOMAIN H :
           H[k].data = Header(Len(segs[k].data), segs[k].addr, segs[k].last)
    /\ \A i \in DOMAIN W :
           IsFramePayload(W[i]) =>
               LET k == Cardinality({j \in 1..i : IsFrameHeader(W[j])}) IN
               /\ W[i].data = segs[k].data
               /\ W[i].addr = (W[i - 1].addr + 4) % U16
    /\ arg.path \in DOMAIN Files =>
           IsPrefix(FirmwarePayloads(W), SourceBytes(Files[arg.path]))
    /\ (Returned /\ ret = 0) =>
           /\ IsTypeWrite(W[Len(W)])
           /\ CountOf(W, IsIdentWrite) = (IF HasIdent(ww_vid, ww_pid) THEN 1 ELSE 0)
           /\ arg.path \in DOMAIN Files =>
                  FirmwarePayloads(W) = SourceBytes(Files[arg.path])
           /\ Cardinality({i \in DOMAIN W : Rank(W, i) = 4}) =
                  (IF arg.path # NULL THEN 2 ELSE 0)
           /\ CountOf(W, IsConfigWrite) = (IF arg.type # "an21" THEN 1 ELSE 0)
           /\ CountOf(W, IsReservedWrite) = (IF arg.type = "fx" THEN 1 ELSE 0)

\* C2 witness: a successful FX call that made every kind of write: marker,
\* identity record, two firmware frames, reset frame, config byte, reserved
\* byte and type byte.
C2_Witness ==
    /\ arg.op = "load_eeprom"
    /\ Returned /\ ret = 0
    /\ arg.type = "fx"
    /\ CountOf(Writes, IsIdentWrite) = 1
    /\ CountOf(Writes, IsFrameHeader) = 3
    /\ CountOf(Writes, IsReservedWrite) = 1
    /\ IsTypeWrite(LastReq)

----------------------------------------------------------------------------
HasEofRecord(f) ==
    \E i \in DOMAIN f.descs : f.descs[i].kind = "rec" /\ f.descs[i].type = 1

\* C3 as stated: when the input to parse_ihex ends without an end-of-file
\* record (type 1), parse_ihex returns a failure status to its caller.
C3_NoEofRecordFails ==
    ( /\ arg.op = "parse_ihex"
      /\ Returned
      /\ ~HasEofRecord(Files[arg.path]) )
    => ret < 0

----------------------------------------------------------------------------
\* the segments handed to the sink lie one after the other from base
RECURSIVE LaidOutFrom(_, _)
LaidOutFrom(ss, base) ==
    \/ ss = <<>>
    \/ /\ Head(ss).addr = base
       /\ LaidOutFrom(Tail(ss), base + Len(Head(ss).data))

SegBytes == Flatten([i \in DOMAIN segs |-> segs[i].data])

\* C4 as stated: for an input whose data records are contiguous and
\* ascending and that ends with an end record, whatever its split into
\* record lines, parse_ihex (its sink accepting every segment) returns 0 and
\* the segments handed to the sink, laid out at their addresses in order,
\* are exactly the image: the same bytes at the same addresses, none lost,
\* duplicated or reordered.
C4_ContiguousImageReconstructed ==
    ( /\ arg.op = "parse_ihex"
      /\ Returned
      /\ Files[arg.path].contiguous
      /\ ret # -1 )
    => /\ ret = 0
       /\ SegBytes = ImageBytes(Files[arg.path].n)
       /\ LaidOutFrom(segs, Files[arg.path].base)

----------------------------------------------------------------------------
\* the segments handed to ram_poke in a pass, as <<addr, data>> pairs
PassSegs(m, ext) ==
    LET S == SelectSeq(segs, LAMBDA g : g.mode = m /\ g.external = ext)
    IN [i \in DOMAIN S |-> <<S[i].addr, S[i].data>>]

\* the segment writes log[a..b] that were accepted, as <<addr, data>> pairs
WrittenIn(a, b) ==
    LET S == SelectSeq(SubSeq(log, a, b), LAMBDA r : IsSegmentWrite(r) /\ r.status >= 0)
    IN [i \in DOMAIN S |-> <<S[i].addr, S[i].data>>]

HaltAt == CHOOSE h \in DOMAIN log : IsHalt(log[h])

\* C5: in a two-stage RAM load no on-chip write is issued before the CPU
\* halt request and no external write after it; when the load succeeds the
\* requests are, in order: the external segments, each written with
\* RW_MEMORY; exactly one CPU halt; the internal segments, each written
\* with RW_INTERNAL; exactly one CPU resume.  Both passes are handed the
\* same segments, and each is written in exactly one pass.
C5_TwoStageOrder ==
    (arg.op = "load_ram" /\ arg.stage # 0) =>
    /\ \A i, j \in DOMAIN log :
           /\ (IsHalt(log[j]) /\ log[i].label = "write on-chip") => j < i
           /\ (IsHalt(log[j]) /\ log[i].label = "write external") => i < j
           /\ IsResume(log[i]) => i = Len(log) /\ j <= i
    /\ (Returned /\ ret = 0) =>
           /\ CountOf(log, IsHalt) = 1
           /\ CountOf(log, IsResume) = 1
           /\ IsResume(LastReq)
           /\ \A i \in 1..(HaltAt - 1) :
                  log[i].label = "write external" /\ log[i].opcode = RW_MEMORY
           /\ \A i \in (HaltAt + 1)..(Len(log) - 1) :
                  log[i].label = "write on-chip" /\ log[i].opcode = RW_INTERNAL
           /\ WrittenIn(1, HaltAt - 1) = PassSegs("skip_internal", TRUE)
           /\ WrittenIn(HaltAt + 1, Len(log) - 1) = PassSegs("skip_external", FALSE)
           /\ PassSegs("skip_internal", TRUE) = PassSegs("skip_external", TRUE)
           /\ PassSegs("skip_internal", FALSE) = PassSegs("skip_external", FALSE)

\* C5 witness: a successful two-stage load of an image with an external
\* segment between two internal ones.
C5_Witness ==
    /\ arg.op = "load_ram" /\ arg.stage # 0
    /\ Returned /\ ret = 0
    /\ Len(PassSegs("skip_internal", TRUE)) = 1
    /\ Len(PassSegs("skip_external", FALSE)) = 2
    /\ Len(WrittenIn(1, Len(log))) = 3

----------------------------------------------------------------------------
SameSegment(r, q) == r.label = q.label /\ r.addr = q.addr /\ r.data = q.data

\* C6: ram_poke re-issues a segment's write only after that write failed
\* with a timeout, and at most RETRY_LIMIT (5) times; after a write that
\* failed with another error, or failed on its fifth retry, no further
\* request is issued and the load returns failure; a write that was
\* accepted is not re-issued.
C6_RetryOnlyOnTimeout ==
    arg.op = "load_ram" =>
    \A i \in DOMAIN log :
        IsSegmentWrite(log[i]) =>
            /\ log[i].attempt \in 0..RETRY_LIMIT
            /\ log[i].attempt > 0 =>
                   /\ i > 1
                   /\ SameSegment(log[i - 1], log[i])
                   /\ log[i - 1].attempt = log[i].attempt - 1
                   /\ log[i - 1].status < 0
                   /\ log[i - 1].errno = ETIMEDOUT
            /\ (log[i].status < 0
                /\ (log[i].errno # ETIMEDOUT \/ log[i].attempt = RETRY_LIMIT)) =>
                   /\ i = Len(log)
                   /\ pc \in {"ram_parsed1", "ram_parsed2", "done"}
                   /\ pc = "done" => ret < 0
                   /\ pc # "done" => status < 0
            /\ (log[i].status < 0 /\ log[i].errno = ETIMEDOUT
                /\ log[i].attempt < RETRY_LIMIT) =>
                   IF i = Len(log) THEN pc = "ram_write"
                   ELSE SameSegment(log[i], log[i + 1])
                        /\ log[i + 1].attempt = log[i].attempt + 1
            /\ (log[i].status >= 0 /\ i < Len(log) /\ IsSegmentWrite(log[i + 1])) =>
                   log[i + 1].attempt = 0

\* C6 witness: a load that returned failure after the fifth retry of a
\* segment's write timed out like the five writes before it.
C6_Witness ==
    /\ arg.op = "load_ram"
    /\ Returned /\ ret < 0
    /\ log # <<>>
    /\ IsSegmentWrite(LastReq)
    /\ LastReq.attempt = RETRY_LIMIT
    /\ LastReq.status < 0 /\ LastReq.errno = ETIMEDOUT

----------------------------------------------------------------------------
\* C7: when a parse pass of ezusb_load_ram has returned a negative status,
\* the next step of the call is its return, with that negative status, and
\* it issues no transport request; no CPU resume request has been issued.
C7_ParseFailureAborts ==
    [][ ( /\ arg.op = "load_ram"
          /\ pc \in {"ram_parsed1", "ram_parsed2"}
          /\ status < 0 )
        => ( /\ pc' = "done"
             /\ ret' = status /\ ret' < 0
             /\ log' = log
             /\ \A i \in DOMAIN log : ~IsResume(log[i]) ) ]_vars

\* C7 witness: a two-stage load whose second pass failed on a write to
\* on-chip memory, and which returned that failure.
C7_Witness ==
    /\ arg.op = "load_ram"
    /\ Returned /\ ret = -1
    /\ mode = "skip_external"
    /\ log # <<>>
    /\ LastReq.label = "write on-chip" /\ LastReq.status < 0
    /\ \E i \in DOMAIN log : IsHalt(log[i])

----------------------------------------------------------------------------
\* C8: ezusb_load_ram returns 0 only when its last transport request is the
\* one CPU resume request of the call (value 0 written with RW_INTERNAL to
\* the variant's CPUCS address, 0x7F92 for FX and 0xE600 for FX2 and FX2LP),
\* coming after every segment write, and that request transferred its one
\* byte; a resume request that did not makes the call return failure.
C8_SuccessMeansResumed ==
    arg.op = "load_ram" =>
    /\ (Returned /\ ret = 0) =>
           /\ log # <<>>
           /\ IsResume(LastReq)
           /\ LastReq.dir = "out" /\ LastReq.opcode = RW_INTERNAL
           /\ LastReq.addr = (IF arg.fx2 = 0 THEN 32658 ELSE 58880)
           /\ LastReq.data = <<0>> /\ LastReq.len = 1
           /\ LastReq.status = 1
           /\ CountOf(log, IsResume) = 1
    /\ \A i \in DOMAIN log :
           (IsResume(log[i]) /\ log[i].status # 1) => (Returned /\ ret < 0)

\* C8 witness: a successful load whose resume request follows a segment
\* write.
C8_Witness ==
    /\ arg.op = "load_ram"
    /\ Returned /\ ret = 0
    /\ Len(log) >= 2
    /\ IsResume(LastReq) /\ LastReq.status = 1
    /\ IsSegmentWrite(log[Len(log) - 1])

----------------------------------------------------------------------------
\* the image has data, and all of it is external for the chip
ExternalOnly(f, fn) ==
    /\ \E i \in DOMAIN f.descs : f.descs[i].kind = "rec" /\ f.descs[i].type = 0
    /\ \A i \in DOMAIN f.descs :
           (f.descs[i].kind = "rec" /\ f.descs[i].type = 0) =>
               IsExternal(fn, f.descs[i].off, f.descs[i].len, FALSE)

SingleStageExternalOnly ==
    /\ arg.op = "load_ram" /\ arg.stage = 0
    /\ arg.path \in DOMAIN Files
    /\ ExternalOnly(Files[arg.path], Classifier(arg.fx2))

\* C9 as stated: a single-stage RAM load of an image whose only data is
\* external for the chip returns failure, and no write request of any kind
\* has been issued to the device when it returns.
C9_NoWriteOfAnyKind ==
    (SingleStageExternalOnly /\ Returned) =>
        /\ ret < 0
        /\ \A i \in DOMAIN log : log[i].dir # "out"

\* C9 as amended: a single-stage RAM load of an image whose only data is
\* external for the chip returns failure; the CPU halt request, a write to
\* CPUCS issued before the image is parsed, is the only transport request
\* of the call: no segment write and no CPU resume request is issued.
C9_OnlyTheHaltIsIssued ==
    SingleStageExternalOnly =>
        /\ Len(log) <= 1
        /\ \A i \in DOMAIN log : IsHalt(log[i])
        /\ Returned => (ret < 0 /\ Len(log) = 1)

\* C9 witness: the halt went through, ram_poke was handed the external
\* segment and refused it, and the load returned failure.
C9_Witness ==
    /\ SingleStageExternalOnly
    /\ Returned /\ ret = -1
    /\ Len(log) = 1 /\ log[1].status = 1
    /\ Len(segs) = 1 /\ segs[1].external

----------------------------------------------------------------------------
\* C10: ezusb_load_eeprom called for the AN21 variant with no image path
\* issues no transport request, read or write, and returns failure from the
\* test of its type argument.
C10_An21NeedsPath ==
    (arg.op = "load_eeprom" /\ arg.type = "an21" /\ arg.path = NULL) =>
        /\ log = <<>>
        /\ pc \in {"ee_open", "ee_select", "done"}
        /\ Returned => ret < 0

\* C10 witness: the AN21 call without a path has returned -1.
C10_Witness ==
    /\ arg.op = "load_eeprom" /\ arg.type = "an21" /\ arg.path = NULL
    /\ Returned /\ ret = -1
    /\ log = <<>>

----------------------------------------------------------------------------
\* the internal windows of a variant, as <<first, last>> addresses
InternalWindows(fn) ==
    CASE fn = "fx_is_external" -> {<<0, 6975>>}
      [] fn = "fx2_is_external" -> {<<0, 8191>>, <<57344, 57855>>}
      [] fn = "fx2lp_is_external" -> {<<0, 16383>>, <<57344, 57855>>}

InOneWindow(fn, addr, len) ==
    \E w \in InternalWindows(fn) : w[1] <= addr /\ addr + len - 1 <= w[2]

\* C11: for each variant, every address in 0..0xFFFF and every length in
\* 1..1023, the classifier returns internal (0) exactly when every byte of
\* [addr, addr+len) lies inside one internal window of the variant (FX:
\* 0x0000-0x1b3f; FX2: 0x0000-0x1fff or 0xe000-0xe1ff; FX2LP: 0x0000-0x3fff
\* or 0xe000-0xe1ff), and external (non-zero) in every other case.
C11_ClassifierWindows ==
    (arg.op = "classify" /\ Returned) =>
        /\ ret \in {0, 1}
        /\ (ret = 0) <=> InOneWindow(arg.is_external, arg.addr, arg.len)
        /\ external <=> (ret # 0)

\* C11 witness: the FX2 classifier found a segment that fills the high
\* window, from its first byte to its last, internal.
C11_Witness ==
    /\ arg.op = "classify" /\ Returned
    /\ arg.is_external = "fx2_is_external"
    /\ arg.addr = 57344 /\ arg.len = 512
    /\ ret = 0

----------------------------------------------------------------------------
\* the positions in the log of the frame headers, in order
HeaderIdx ==
    SelectSeq([i \in DOMAIN log |-> i], LAMBDA i : IsFrameHeader(log[i]))

\* C12: for every segment eeprom_poke accepts (internal, at most 1023
\* bytes) the header request carries, at the cursor, the 4 bytes [length
\* high byte, with 0x80 set iff the context's last flag is set; length low
\* byte; address high byte; address low byte]; the payload request follows
\* it at cursor + 4 with the segment's bytes; the cursor stays where it is
\* until both requests returned a non-negative status and then moves by
\* 4 + length, so that the next header lies 4 + length further on.
C12_FrameLayout ==
    arg.op = "load_eeprom" =>
    \A k \in DOMAIN HeaderIdx :
        LET i == HeaderIdx[k]
            h == log[i]
            g == segs[k]
            n == Len(g.data)
            isLast == k = Len(HeaderIdx)
        IN
        /\ ~g.external /\ n <= 1023
        /\ h.len = 4
        /\ h.data = << (n \div 256) + (IF g.last # 0 THEN 128 ELSE 0),
                       n % 256, g.addr \div 256, g.addr % 256 >>
        /\ h.opcode = eeprom_request
        /\ i < Len(log) =>
               /\ h.status >= 0
               /\ IsFramePayload(log[i + 1])
               /\ log[i + 1].addr = h.addr + 4
               /\ log[i + 1].data = g.data
               /\ log[i + 1].len = n
               /\ log[i + 1].opcode = eeprom_request
        /\ ~isLast =>
               /\ log[i + 1].status >= 0
               /\ log[HeaderIdx[k + 1]].addr = h.addr + 4 + n
        /\ isLast =>
               ee_addr = IF i < Len(log) /\ log[i + 1].status >= 0
                         THEN h.addr + 4 + n ELSE h.addr
        /\ (isLast /\ i = Len(log)) =>
               IF h.status >= 0 THEN pc = "ee_data" ELSE pc \in {"ee_parsed", "done"}

\* C12 witness: the header and the two-byte payload of a frame have both
\* been accepted and the cursor stands 6 bytes after the header.
C12_Witness ==
    /\ arg.op = "load_eeprom"
    /\ Len(log) >= 2
    /\ IsFramePayload(LastReq) /\ LastReq.status = 2
    /\ log[Len(log) - 1].status = 4
    /\ log[Len(log) - 1].data = <<0, 2, 0, 16>>
    /\ ee_addr = log[Len(log) - 1].addr + 6

----------------------------------------------------------------------------
HasLastFlag(h) == h.data[1] >= 128

\* the header of the reset frame of a variant: flag 0x80, length 1, and the
\* address of CPUCS (0xe600 for FX2 and FX2LP, 0x7f92 for FX and AN21)
ResetHeader(type) ==
    IF type \in {"fx2", "fx2lp"} THEN <<128, 1, 230, 0>> ELSE <<128, 1, 127, 146>>

\* C13: in ezusb_load_eeprom a frame carries the last-segment flag (0x80)
\* only if it is the reset frame: length 1, payload 0, target address the
\* variant's CPUCS register, written after the scan of the image returned;
\* and a successful call with an image path has written exactly one such
\* frame, as its final frame, after one unflagged frame for every segment
\* of the source image.
C13_OneLastFrame ==
    arg.op = "load_eeprom" =>
    /\ \A k \in DOMAIN HeaderIdx :
           HasLastFlag(log[HeaderIdx[k]]) =>
               /\ k = Len(HeaderIdx)
               /\ log[HeaderIdx[k]].data = ResetHeader(arg.type)
               /\ HeaderIdx[k] < Len(log) => log[HeaderIdx[k] + 1].data = <<0>>
               /\ pc \notin {"parse", "flush", "ee_parsed"}
    /\ (Returned /\ ret = 0 /\ arg.path # NULL) =>
           LET n == Len(HeaderIdx) IN
           /\ n >= 1
           /\ HasLastFlag(log[HeaderIdx[n]])
           /\ log[HeaderIdx[n] + 1].data = <<0>> /\ log[HeaderIdx[n] + 1].len = 1
           /\ \A k \in 1..(n - 1) : ~HasLastFlag(log[HeaderIdx[k]])
           /\ Flatten([k \in 1..(n - 1) |-> log[HeaderIdx[k] + 1].data])
                  = SourceBytes(Files[arg.path])

\* C13 witness: a successful FX2 call whose image gave two frames and
\* whose third and final frame is the reset frame.
C13_Witness ==
    /\ arg.op = "load_eeprom" /\ arg.type = "fx2"
    /\ Returned /\ ret = 0
    /\ Len(HeaderIdx) = 3
    /\ log[HeaderIdx[3]].data = <<128, 1, 230, 0>>
    /\ log[HeaderIdx[1]].data[1] = 0 /\ log[HeaderIdx[2]].data[1] = 0

----------------------------------------------------------------------------
\* the offset at which the variant's first frame goes
InitialOffset(type) ==
    CASE type \in {"fx2", "fx2lp"} -> 8
      [] type = "fx" -> 9
      [] type = "an21" -> 7

\* the frames written so far: the payload requests that were accepted
FramesWritten == SelectSeq(log, LAMBDA r : IsFramePayload(r) /\ r.status >= 0)

RECURSIVE FrameSizes(_)
FrameSizes(fs) ==
    IF fs = <<>> THEN 0 ELSE 4 + Head(fs).len + FrameSizes(Tail(fs))

\* the cursor is set once the variant is chosen: the marker write follows
CursorSet == arg.op = "load_eeprom" /\ \E i \in DOMAIN log : IsMarker(log[i])

\* C14 as stated: after N segments of lengths L1..LN have been written by
\* eeprom_poke in one call, the cursor equals the variant's initial offset
\* plus the sum of the (4 + Li), plus the 6 bytes of the identity record if
\* one was written.
C14_CursorCountsIdentity ==
    CursorSet =>
        ee_addr = InitialOffset(arg.type) + FrameSizes(FramesWritten)
                  + (IF \E i \in DOMAIN log : IsIdentWrite(log[i]) /\ log[i].status >= 0
                     THEN 6 ELSE 0)

\* C14 as amended: after N segments of lengths L1..LN have been written by
\* eeprom_poke in one call, the cursor equals the variant's initial offset
\* (8 for FX2 and FX2LP, 9 for FX, 7 for AN21) plus the sum of the
\* (4 + Li), modulo 2^16, whether or not an identity record was written.
C14_CursorSum ==
    CursorSet =>
        ee_addr = (InitialOffset(arg.type) + FrameSizes(FramesWritten)) % U16

\* C14 witness: an FX2 call that wrote the identity record and three frames
\* of 1, 2 and 1 bytes: the cursor is 8 + 5 + 6 + 5.
C14_Witness ==
    /\ CursorSet /\ arg.type = "fx2"
    /\ \E i \in DOMAIN log : IsIdentWrite(log[i]) /\ log[i].status = 6
    /\ Len(FramesWritten) = 3
    /\ ee_addr = 24

----------------------------------------------------------------------------
Refused(g) == g.external \/ Len(g.data) > 1023

\* where the cursor stands after the frames in the log
CursorAfterFrames(start) ==
    IF FramesWritten = <<>> THEN start
    ELSE FramesWritten[Len(FramesWritten)].addr + FramesWritten[Len(FramesWritten)].len

\* C15: when eeprom_poke is handed a segment that is external or longer
\* than 1023 bytes it issues no request and leaves the cursor where it was,
\* and returns -EINVAL (external) or -EDOM (too long); the segment is not
\* handed to it again, and ezusb_load_eeprom returns failure with no
\* further EEPROM write: the refused segment is the last one handed over,
\* every header in the log belongs to an earlier segment, and no config,
\* reserved or type byte is written.
C15_RefusedSegment ==
    /\ (arg.op = "eeprom_poke" /\ (arg.external \/ arg.len > 1023)) =>
           /\ log = <<>>
           /\ ee_addr = arg.cursor
           /\ Returned => ret = (IF arg.external THEN -EINVAL ELSE -EDOM)
           /\ Len(segs) <= 1
    /\ arg.op = "load_eeprom" =>
           \A k \in DOMAIN segs :
               Refused(segs[k]) =>
                   /\ k = Len(segs)
                   /\ Len(HeaderIdx) = k - 1
                   /\ \A i \in DOMAIN log :
                          /\ ~IsConfigWrite(log[i]) /\ ~IsReservedWrite(log[i])
                          /\ ~IsTypeWrite(log[i])
                          /\ log[i].dir = "out" => log[i].status >= 0
                   /\ log # <<>> /\ (k > 1 => IsFramePayload(LastReq))
                   /\ ee_addr = CursorAfterFrames(InitialOffset(arg.type))
                   /\ pc \in {"ee_parsed", "done"}
                   /\ status < 0
                   /\ Returned => ret < 0

\* C15 witness: ezusb_load_eeprom wrote the first frame of an image, was
\* refused the external second segment, and returned failure with the
\* cursor after the first frame; the third segment was never handed over.
C15_Witness ==
    /\ arg.op = "load_eeprom" /\ arg.type = "fx2"
    /\ Returned /\ ret < 0
    /\ Len(segs) = 2 /\ segs[2].external
    /\ Len(HeaderIdx) = 1
    /\ ee_addr = 13

----------------------------------------------------------------------------
\* the variant's default ids; 0 where the variant has none
DefaultVid(type) == IF type \in {"fx2", "fx2lp"} THEN 1204 ELSE 0

DefaultPid(type) ==
    CASE type = "fx2" -> 25715 [] type = "fx2lp" -> 34323 [] OTHER -> 0

\* an id is available from a non-negative override or else from a default
IdAvailable(override, default) == override >= 0 \/ default # 0

IdChosen(override, default) == IF override >= 0 THEN override ELSE default

IdentityExpected ==
    LET v == IdChosen(arg.ww_config_vid, DefaultVid(arg.type))
        p == IdChosen(arg.ww_config_pid, DefaultPid(arg.type))
    IN << v % 256, v \div 256, p % 256, p \div 256, 5, 160 >>

\* the identity step is behind: the marker was accepted and the call has
\* moved on
PastIdentity ==
    /\ arg.op = "load_eeprom"
    /\ \E i \in DOMAIN log : IsMarker(log[i]) /\ log[i].status >= 0
    /\ pc # "ee_ident"

\* C16 as stated: whenever a vendor id and a product id are each
\* available, from a non-negative override or else from the variant's
\* default, ezusb_load_eeprom writes exactly one 6-byte identity record
\* [vid low, vid high, pid low, pid high, 0x05, 0xa0] at offset 1, right
\* after the marker write and before any frame, each id being the override
\* when that is non-negative and the default otherwise; when no such pair
\* is available no identity record is written.
C16_IdentityWhenAvailable ==
    PastIdentity =>
        IF /\ IdAvailable(arg.ww_config_vid, DefaultVid(arg.type))
           /\ IdAvailable(arg.ww_config_pid, DefaultPid(arg.type))
        THEN /\ CountOf(Writes, IsIdentWrite) = 1
             /\ IsMarker(Writes[1]) /\ IsIdentWrite(Writes[2])
             /\ Writes[2].addr = 1 /\ Writes[2].len = 6
             /\ Writes[2].data = IdentityExpected
        ELSE CountOf(Writes, IsIdentWrite) = 0

----------------------------------------------------------------------------
\* config AND 0x4f: bits 0..3 and bit 6; config AND 0x07: bits 0..2
ConfigExpected(type, c) ==
    IF type = "fx" THEN c % 8 ELSE (c % 16) + 64 * ((c \div 64) % 2)

\* C17: ezusb_load_eeprom writes a config byte only for FX2, FX2LP and FX,
\* at offset 7 with value (config AND 0x4f) for FX2 and FX2LP and (config
\* AND 0x07) for FX, and a reserved byte only for FX, at offset 8 with value
\* 0; a successful call has written each of them exactly once where it
\* applies, and for AN21 neither.
C17_ConfigAndReserved ==
    arg.op = "load_eeprom" =>
    /\ \A i \in DOMAIN log :
           /\ IsConfigWrite(log[i]) =>
                  /\ arg.type \in {"fx2", "fx2lp", "fx"}
                  /\ log[i].addr = 7 /\ log[i].len = 1
                  /\ log[i].data = <<ConfigExpected(arg.type, arg.config)>>
           /\ IsReservedWrite(log[i]) =>
                  /\ arg.type = "fx"
                  /\ log[i].addr = 8 /\ log[i].len = 1
                  /\ log[i].data = <<0>>
                  /\ i > 1 /\ IsConfigWrite(log[i - 1])
    /\ (Returned /\ ret = 0) =>
           /\ CountOf(log, IsConfigWrite) = (IF arg.type = "an21" THEN 0 ELSE 1)
           /\ CountOf(log, IsReservedWrite) = (IF arg.type = "fx" THEN 1 ELSE 0)

\* C17 witness: a successful FX call with config 0xff wrote 0x07 at offset
\* 7 and 0 at offset 8.
C17_Witness ==
    /\ arg.op = "load_eeprom" /\ arg.type = "fx" /\ arg.config = 255
    /\ Returned /\ ret = 0
    /\ \E i \in DOMAIN log : IsConfigWrite(log[i]) /\ log[i].data = <<7>>
    /\ \E i \in DOMAIN log : IsReservedWrite(log[i]) /\ log[i].addr = 8

----------------------------------------------------------------------------
\* C18: in a single-stage RAM load the first request is the CPU halt; when
\* it does not transfer its byte nothing is parsed, no segment is handed
\* over or written, and the load returns failure; every segment write comes
\* after the accepted halt and uses RW_INTERNAL; the first segment
\* classified external is the last segment handed to ram_poke, it is not
\* written, nothing is written after it, and the load returns failure.
C18_SingleStageWrites ==
    (arg.op = "load_ram" /\ arg.stage = 0) =>
    /\ log # <<>> => IsHalt(log[1])
    /\ (log # <<>> /\ log[1].status # 1) =>
           /\ Len(log) = 1 /\ segs = <<>> /\ pos = 1
           /\ Returned /\ ret < 0
    /\ segs # <<>> => (log # <<>> /\ log[1].status = 1)
    /\ \A i \in DOMAIN log :
           IsSegmentWrite(log[i]) =>
               /\ i > 1 /\ log[1].status = 1
               /\ log[i].opcode = RW_INTERNAL /\ log[i].label = "write on-chip"
               /\ \E k \in DOMAIN segs :
                      /\ ~segs[k].external
                      /\ log[i].addr = segs[k].addr /\ log[i].data = segs[k].data
    /\ \A k \in DOMAIN segs :
           segs[k].external =>
               /\ k = Len(segs)
               /\ Len(WrittenIn(1, Len(log))) = k - 1
               /\ \A i \in DOMAIN log : i > 1 => IsSegmentWrite(log[i])
               /\ LastReq.status >= 0
               /\ pc \in {"ram_parsed1", "done"}
               /\ status < 0
               /\ Returned => ret < 0

\* C18 witness: a single-stage load halted the CPU, wrote the first,
\* internal segment, was refused the external second one and returned
\* failure; the third segment was never handed over.
C18_Witness ==
    /\ arg.op = "load_ram" /\ arg.stage = 0
    /\ Returned /\ ret < 0
    /\ Len(segs) = 2 /\ segs[2].external
    /\ Len(log) = 2 /\ log[1].status = 1
    /\ log[2].opcode = RW_INTERNAL /\ log[2].status = 1

----------------------------------------------------------------------------
\* the offset field of the data record that holds the p-th data byte of
\* the file
RECURSIVE OffsetOfByte(_, _)
OffsetOfByte(ds, p) ==
    IF ds = <<>> THEN -1
    ELSE LET d == Head(ds)
             n == IF d.kind = "rec" /\ d.type = 0 THEN Len(d.bytes) ELSE 0
         IN IF p <= n THEN d.off ELSE OffsetOfByte(Tail(ds), p - n)

BytesBefore(k) == Len(Flatten([j \in 1..(k - 1) |-> segs[j].data]))

\* C19 as stated: every segment parse_ihex hands to the sink carries as its
\* address the offset field of the first data record whose bytes are
\* stored in that segment, for every sequence of data records, records of
\* length 0 included.
C19_SegmentAddress ==
    arg.op = "parse_ihex" =>
        \A k \in DOMAIN segs :
            /\ segs[k].data # <<>>
            /\ segs[k].addr = OffsetOfByte(Files[arg.path].descs, BytesBefore(k) + 1)

----------------------------------------------------------------------------
\* C20: when the sink returns a negative result for a segment, parse_ihex
\* returns failure in that same step: the read offset stays on the record
\* that triggered the flush, that record's bytes are not stored, the
\* classifier's last answer is the one given for the refused segment; and
\* no step follows: nothing more is read, classified or handed to the sink.
C20_SinkFailureAborts ==
    [][ /\ ( /\ arg.op = "parse_ihex"
             /\ Len(segs') = Len(segs) + 1
             /\ segs'[Len(segs')].rc < 0 )
           => ( /\ pc' = "done" /\ ret' < 0
                /\ pos' = pos
                /\ data' = data /\ data_addr' = data_addr
                /\ data' = segs'[Len(segs')].data
                /\ external' = segs'[Len(segs')].external )
        /\ ~( /\ arg.op = "parse_ihex"
              /\ segs # <<>>
              /\ segs[Len(segs)].rc < 0 ) ]_vars

\* C20 witness: the sink accepted the first segment of an image and
\* refused the second, flushed when a third, non-contiguous record came;
\* parse_ihex returned -1 with that record unread.
C20_Witness ==
    /\ arg.op = "parse_ihex"
    /\ Returned /\ ret = -1
    /\ Len(segs) = 2
    /\ segs[1].rc = 0 /\ segs[2].rc < 0
    /\ Fgets(Text, pos) # <<>>
    /\ Fgets(Text, pos)[1] = ":"

----------------------------------------------------------------------------
\* a step of eeprom_poke that wrote a frame: its payload request went through
FrameWritten ==
    /\ pc = "ee_data"
    /\ Len(log') = Len(log) + 1
    /\ log'[Len(log')].status >= 0

\* C21: the cursor is strictly greater after each written frame than before
\* it, whatever number and size of frames the image produces.  The cursor is
\* an unsigned short: a frame of 1023 bytes written at LateCursor (64709,
\* where 63 such frames leave it) takes it past 65535 to 200, an offset
\* inside the first frame of the same call.
C21_CursorStrictlyIncreases ==
    [][FrameWritten => ee_addr' > ee_addr]_vars

----------------------------------------------------------------------------
\* C22: every segment parse_ihex hands to the sink is 1 to 1023 bytes long,
\* whatever the records (the buffer never holds more than its 1023 bytes
\* either); so the length test of eeprom_poke never refuses a segment that
\* comes from parse_ihex.
C22_SegmentLength ==
    /\ Len(data) <= DataSize
    /\ \A k \in DOMAIN segs :
           /\ Len(segs[k].data) \in 1..DataSize
           /\ EepromPokeDecision(segs[k].external, Len(segs[k].data)) # -EDOM

\* C22 witness: parse_ihex read a contiguous image of 1245 bytes whose first
\* five records fill the buffer to the byte, handed over a segment of 1023
\* bytes and then the remaining 222, and returned 0.
C22_Witness ==
    /\ arg.op = "parse_ihex"
    /\ Returned /\ ret = 0
    /\ Len(segs) = 2
    /\ Len(segs[1].data) = DataSize
    /\ Len(segs[2].data) = 222

----------------------------------------------------------------------------
\* a request the transport answered with a count below the length asked for
ShortCount(r) == r.status >= 0 /\ r.status < r.len

IsCpucs(r) == IsHalt(r) \/ IsResume(r)

\* a step that issued a write the transport cut short
ShortWriteStep ==
    /\ Len(log') = Len(log) + 1
    /\ log'[Len(log')].dir = "out"
    /\ ShortCount(log'[Len(log')])

\* C23: a RAM-segment or EEPROM write the transport cut short is taken for a
\* success: the loader does not issue it again, does not fail on it and goes
\* on as after a full write (a frame's payload moves the cursor, the type
\* byte ends the call with 0); a CPUCS request cut short makes the call
\* return -1 at once.
C23_ShortWriteAccepted ==
    [][ShortWriteStep =>
          LET r == log'[Len(log')] IN
          IF IsCpucs(r)
          THEN pc' = "done" /\ ret' = -1
          ELSE /\ pc' # pc
               /\ retry' = retry
               /\ status' >= 0
               /\ pc' = "done" <=> IsTypeWrite(r)
               /\ pc' = "done" => ret' = 0
               /\ IsFramePayload(r) => ee_addr' = NextFree(ee_addr, r.len)
               /\ IsSegmentWrite(r) => pc' \in {"parse", "ram_parsed1", "ram_parsed2"}]_vars

\* C23 witness: ezusb_load_eeprom returned 0 with the bootable type byte
\* written in full as its last request, although the payload of a frame was
\* cut short.
C23_Witness ==
    /\ arg.op = "load_eeprom"
    /\ Returned /\ ret = 0
    /\ IsTypeWrite(LastReq) /\ LastReq.status = 1 /\ ee0 # 0
    /\ \E i \in DOMAIN log : IsFramePayload(log[i]) /\ ShortCount(log[i])

----------------------------------------------------------------------------
\* the segments ram_poke set out to write: the first attempts in the log
SegmentsWritten ==
    Cardinality({i \in DOMAIN log : IsSegmentWrite(log[i]) /\ log[i].attempt = 0})

\* C24: with verbose set, an ezusb_load_ram call whose image yields no
\* written segment stands at the summary with the segment counter at 0, the
\* resume request not yet issued: total / count has a zero divisor there.
\* The counter is 0 at the summary exactly when no segment was written; the
\* call that trapped in the division did so with verbose set, the counter
\* at 0, no segment written and no resume request issued.
C24_SummaryDividesByZero ==
    arg.op = "load_ram" =>
        /\ pc \in {"ram_summary", "crashed"} =>
               /\ count = SegmentsWritten
               /\ \A i \in DOMAIN log : ~IsResume(log[i])
        /\ (pc = "ram_summary" /\ verbose # 0 /\ SegmentsWritten = 0) =>
               SummaryUndefined(verbose, count)
        /\ pc = "crashed" =>
               /\ verbose # 0 /\ count = 0
               /\ \A i \in DOMAIN log : ~IsSegmentWrite(log[i])

\* C24 witness: verbose, single stage, the image that holds only the end
\* record: the CPU was halted, nothing was written, and the call trapped in
\* the summary's division instead of resuming the CPU.
C24_Witness ==
    /\ arg.op = "load_ram" /\ verbose # 0 /\ arg.stage = 0
    /\ arg.path \in DOMAIN Files /\ Files[arg.path].descs = <<EofRec>>
    /\ pc = "crashed"
    /\ count = 0
    /\ Len(log) = 1 /\ IsHalt(log[1]) /\ log[1].status = 1

====
